---- MODULE Spec2Model ----
(***************************************************************************)
(* Order placement against the product catalog (resources/orders.py,       *)
(* resources/products.py).  Every request handler runs in its own worker   *)
(* with its own ORM session: a query reads the committed rows into the     *)
(* session, db.session.commit() writes the session's pending changes.      *)
(* product.stock -= q is computed on the value the session loaded, and the *)
(* commit stores that computed value.                                      *)
(***************************************************************************)
EXTENDS Integers, FiniteSets, Sequences, TLC

\* ---- bounds of the model
MaxStock == 2
MaxQty == 2
MaxOrders == 2

\* two request workers, two authenticated identities, two prices
Procs == {1, 2}
Users == {1, 2}
Prices == {1, 2}
\* data['stock'] of a created product
Stocks == 0..MaxStock
\* data['quantity'] is not validated: zero and negative values reach the handler
Quantities == (0 - 1)..MaxQty
\* primary keys the product table hands out over a run; they are never reused
CatalogIds == {1}
\* ids a request may name: the catalog's ids and one that never exists
ProductIds == CatalogIds \cup {2}

VARIABLES
    products,       \* table product: id -> [price, stock]
    orders,         \* table order: set of rows
    nextProductId,  \* next primary key of table product
    createdStock,   \* id -> the stock the product was created with
    commits,        \* number of committed write transactions
    pc,             \* worker -> "idle" | "loaded" | "done"
    req,            \* worker -> the request it is handling
    local,          \* worker -> the product row loaded into its session
    status,         \* worker -> HTTP status of the finished request (0: none)
    body,           \* worker -> rows of the GET /orders response
    readAt          \* worker -> value of commits when its query ran

vars == <<products, orders, nextProductId, createdStock, commits,
          pc, req, local, status, body, readAt>>

store == <<products, orders, nextProductId, createdStock, commits>>

NoRequest == [op |-> "none", user |-> 0, product_id |-> 0, quantity |-> 0]
NoProduct == [id |-> 0, price |-> 0, stock |-> 0]

\* the handler has returned: its locals are gone, the response goes to the caller
Answered(r) == [op |-> r.op, user |-> r.user, product_id |-> 0, quantity |-> 0]

\* ---- pure helpers

RECURSIVE SumQuantity(_)
SumQuantity(S) ==
    IF S = {} THEN 0
    ELSE LET o == CHOOSE x \in S : TRUE
         IN  o.quantity + SumQuantity(S \ {o})

OrdersForProduct(pid) == {o \in orders : o.product_id = pid}

\* primary key of a new order row: orders are never deleted
FreshOrderId == Cardinality(orders) + 1

\* primary key of a new product row
NewProductId == nextProductId

\* faulty variant: the quantity is left out of the price
TotalPriceNoQuantity(product, quantity) == product.price

\* total_price = product.price * data['quantity']
TotalPrice(product, quantity) == product.price * quantity

\* Order(user_id=..., product_id=product.id, quantity=..., total_price=...)
NewOrder(user_id, product, quantity) ==
    [id |-> FreshOrderId, user_id |-> user_id, product_id |-> product.id,
     quantity |-> quantity, total_price |-> TotalPrice(product, quantity)]

\* faulty variant: the query is not filtered by user
OrdersOfAnyone(user_id) == orders

\* Order.query.filter_by(user_id=user_id).all()
OrdersOf(user_id) == {o \in orders : o.user_id = user_id}

\* the JSON row of one order in the GET /orders response
OrderView(o) ==
    [id |-> o.id, product_id |-> o.product_id, quantity |-> o.quantity,
     total_price |-> o.total_price]

\* orders whose insert is still possible within the bound
InFlight == Cardinality({p \in Procs : pc[p] = "loaded"})

\* ---- initial state: db.create_all() on an empty database

Init ==
    /\ products = <<>>
    /\ orders = {}
    /\ nextProductId = 1
    /\ createdStock = <<>>
    /\ commits = 0
    /\ pc = [p \in Procs |-> "idle"]
    /\ req = [p \in Procs |-> NoRequest]
    /\ local = [p \in Procs |-> NoProduct]
    /\ status = [p \in Procs |-> 0]
    /\ body = [p \in Procs |-> {}]
    /\ readAt = [p \in Procs |-> 0]

\* ---- catalog management

\* ProductList.post
ProductCreate(price, stock) ==
    /\ NewProductId \in CatalogIds
    /\ products' = products @@ (NewProductId :> [price |-> price, stock |-> stock])
    /\ createdStock' = createdStock @@ (NewProductId :> stock)
    /\ nextProductId' = NewProductId + 1
    /\ commits' = commits + 1
    /\ UNCHANGED <<orders, pc, req, local, status, body, readAt>>

\* faulty variant: deleting a product deletes its orders
ProductDeleteCascade(product_id) ==
    /\ product_id \in DOMAIN products
    /\ products' = [i \in DOMAIN products \ {product_id} |-> products[i]]
    /\ orders' = {o \in orders : o.product_id # product_id}
    /\ commits' = commits + 1
    /\ UNCHANGED <<nextProductId, createdStock, pc, req, local, status, body, readAt>>

\* ProductDetail.delete
ProductDelete(product_id) ==
    /\ product_id \in DOMAIN products
    /\ products' = [i \in DOMAIN products \ {product_id} |-> products[i]]
    /\ commits' = commits + 1
    /\ UNCHANGED <<orders, nextProductId, createdStock, pc, req, local, status, body, readAt>>

\* ---- POST /orders

\* get_or_404 finds no row: 404
PostNotFound(p, user_id, product_id, quantity) ==
    /\ pc[p] = "idle"
    /\ product_id \notin DOMAIN products
    /\ req' = [req EXCEPT ![p] = Answered([op |-> "post", user |-> user_id,
                                  product_id |-> product_id, quantity |-> quantity])]
    /\ status' = [status EXCEPT ![p] = 404]
    /\ pc' = [pc EXCEPT ![p] = "done"]
    /\ UNCHANGED <<store, local, body, readAt>>

\* get_or_404 loads the product row into the worker's session
PostLoad(p, user_id, product_id, quantity) ==
    /\ pc[p] = "idle"
    /\ product_id \in DOMAIN products
    /\ Cardinality(orders) + InFlight < MaxOrders
    /\ req' = [req EXCEPT ![p] = [op |-> "post", user |-> user_id,
                                  product_id |-> product_id, quantity |-> quantity]]
    /\ local' = [local EXCEPT ![p] = [id |-> product_id,
                                      price |-> products[product_id].price,
                                      stock |-> products[product_id].stock]]
    /\ pc' = [pc EXCEPT ![p] = "loaded"]
    /\ UNCHANGED <<store, status, body, readAt>>

\* faulty variant: the stock is decremented and committed before the check
PostRejectAfterDecrement(p) ==
    /\ pc[p] = "loaded"
    /\ local[p].stock < req[p].quantity
    /\ local[p].id \in DOMAIN products
    /\ products' = [products EXCEPT ![local[p].id].stock = local[p].stock - req[p].quantity]
    /\ commits' = commits + 1
    /\ status' = [status EXCEPT ![p] = 400]
    /\ pc' = [pc EXCEPT ![p] = "done"]
    /\ req' = [req EXCEPT ![p] = Answered(req[p])]
    /\ local' = [local EXCEPT ![p] = NoProduct]
    /\ UNCHANGED <<orders, nextProductId, createdStock, body, readAt>>

\* product.stock < data['quantity']: 400
PostReject(p) ==
    /\ pc[p] = "loaded"
    /\ local[p].stock < req[p].quantity
    /\ status' = [status EXCEPT ![p] = 400]
    /\ pc' = [pc EXCEPT ![p] = "done"]
    /\ req' = [req EXCEPT ![p] = Answered(req[p])]
    /\ local' = [local EXCEPT ![p] = NoProduct]
    /\ UNCHANGED <<store, body, readAt>>

\* the order row is built, stock is set to (loaded stock - quantity), both commit
PostCommit(p) ==
    /\ pc[p] = "loaded"
    /\ ~(local[p].stock < req[p].quantity)
    /\ local[p].id \in DOMAIN products
    /\ products' = [products EXCEPT ![local[p].id].stock = local[p].stock - req[p].quantity]
    /\ orders' = orders \cup {NewOrder(req[p].user, local[p], req[p].quantity)}
    /\ commits' = commits + 1
    /\ status' = [status EXCEPT ![p] = 201]
    /\ pc' = [pc EXCEPT ![p] = "done"]
    /\ req' = [req EXCEPT ![p] = Answered(req[p])]
    /\ local' = [local EXCEPT ![p] = NoProduct]
    /\ UNCHANGED <<nextProductId, createdStock, body, readAt>>

\* the loaded row was deleted meanwhile: the UPDATE matches no row, the flush
\* raises, the transaction is rolled back: 500
PostStale(p) ==
    /\ pc[p] = "loaded"
    /\ ~(local[p].stock < req[p].quantity)
    /\ local[p].id \notin DOMAIN products
    /\ status' = [status EXCEPT ![p] = 500]
    /\ pc' = [pc EXCEPT ![p] = "done"]
    /\ req' = [req EXCEPT ![p] = Answered(req[p])]
    /\ local' = [local EXCEPT ![p] = NoProduct]
    /\ UNCHANGED <<store, body, readAt>>

\* ---- GET /orders

\* faulty variant: the rows returned are removed from the table
GetOrdersAndClear(p, user_id) ==
    /\ pc[p] = "idle"
    /\ req' = [req EXCEPT ![p] = [op |-> "get", user |-> user_id,
                                  product_id |-> 0, quantity |-> 0]]
    /\ body' = [body EXCEPT ![p] = {OrderView(o) : o \in OrdersOf(user_id)}]
    /\ orders' = orders \ OrdersOf(user_id)
    /\ readAt' = [readAt EXCEPT ![p] = commits]
    /\ status' = [status EXCEPT ![p] = 200]
    /\ pc' = [pc EXCEPT ![p] = "done"]
    /\ UNCHANGED <<products, nextProductId, createdStock, commits, local>>

\* OrderResource.get
GetOrders(p, user_id) ==
    /\ pc[p] = "idle"
    /\ req' = [req EXCEPT ![p] = [op |-> "get", user |-> user_id,
                                  product_id |-> 0, quantity |-> 0]]
    /\ body' = [body EXCEPT ![p] = {OrderView(o) : o \in OrdersOf(user_id)}]
    /\ readAt' = [readAt EXCEPT ![p] = commits]
    /\ status' = [status EXCEPT ![p] = 200]
    /\ pc' = [pc EXCEPT ![p] = "done"]
    /\ UNCHANGED <<store, local>>

\* the response is sent, the session is removed, the worker takes the next request
Return(p) ==
    /\ pc[p] = "done"
    /\ pc' = [pc EXCEPT ![p] = "idle"]
    /\ req' = [req EXCEPT ![p] = NoRequest]
    /\ local' = [local EXCEPT ![p] = NoProduct]
    /\ status' = [status EXCEPT ![p] = 0]
    /\ body' = [body EXCEPT ![p] = {}]
    /\ readAt' = [readAt EXCEPT ![p] = 0]
    /\ UNCHANGED store

Next ==
    \/ \E price \in Prices, stock \in Stocks : ProductCreate(price, stock)
    \/ \E product_id \in ProductIds : ProductDelete(product_id)
    \/ \E p \in Procs, u \in Users, product_id \in ProductIds, q \in Quantities :
          PostNotFound(p, u, product_id, q)
    \/ \E p \in Procs, u \in Users, product_id \in ProductIds, q \in Quantities :
          PostLoad(p, u, product_id, q)
    \/ \E p \in Procs : PostReject(p)
    \/ \E p \in Procs : PostCommit(p)
    \/ \E p \in Procs : PostStale(p)
    \/ \E p \in Procs, u \in Users : GetOrders(p, u)
    \/ \E p \in Procs : Return(p)

Spec == Init /\ [][Next]_vars


\* ---- Scenario D of the specification: one product with stock 5 (price 10 as in
\* ---- scenario A, or any modelled price), two workers, each placing one order
\* ---- for quantity 3

InitD ==
    /\ \E price \in Prices \cup {10} : products = (1 :> [price |-> price, stock |-> 5])
    /\ orders = {}
    /\ nextProductId = 2
    /\ createdStock = (1 :> 5)
    /\ commits = 1
    /\ pc = [p \in Procs |-> "idle"]
    /\ req = [p \in Procs |-> NoRequest]
    /\ local = [p \in Procs |-> NoProduct]
    /\ status = [p \in Procs |-> 0]
    /\ body = [p \in Procs |-> {}]
    /\ readAt = [p \in Procs |-> 0]

NextD ==
    \/ \E p \in Procs, u \in Users : PostLoad(p, u, 1, 3)
    \/ \E p \in Procs : PostReject(p)
    \/ \E p \in Procs : PostCommit(p)

SpecD == InitD /\ [][NextD]_vars

\* ---- properties

\* worker p's handler returns with the given status in this step
Finishes(p, code) == pc[p] # "done" /\ pc'[p] = "done" /\ status'[p] = code

OrderIds(S) == {o.id : o \in S}

\* C1: for every product, stock is never negative and the quantities of the
\* orders placed against it never add up to more than the stock it was created with
C1_NeverOversold ==
    \A pid \in DOMAIN createdStock :
        /\ pid \in DOMAIN products => products[pid].stock >= 0
        /\ SumQuantity(OrdersForProduct(pid)) <= createdStock[pid]

\* C2: when both orders of scenario D (stock 5, quantity 3 each) are answered,
\* exactly one was accepted (201), the other rejected (400), the stock is 2 and
\* one order is recorded
C2_ScenarioD ==
    (\A p \in Procs : pc[p] = "done") =>
        /\ \E p \in Procs : /\ status[p] = 201
                            /\ \A q \in Procs \ {p} : status[q] = 400
        /\ products[1].stock = 2
        /\ Cardinality(orders) = 1

\* C3: a POST /orders that ends with 400 (not enough stock) or 404 (no such
\* product) changes no product and no order, in its answering step and in the
\* step that loaded the product
C3_FailureChangesNothing ==
    [][\A p \in Procs :
         (\/ Finishes(p, 400)
          \/ Finishes(p, 404)
          \/ (pc[p] = "idle" /\ pc'[p] = "loaded"))
         => (products' = products /\ orders' = orders)]_vars

C3_Witness ==
    \E p \in Procs :
        /\ pc[p] = "done" /\ req[p].op = "post" /\ status[p] = 400
        /\ products # <<>> /\ orders # {}

\* C4: a POST /orders with quantity <= 0 is never accepted and changes no product
\* and no order, so every recorded order has a positive quantity
C4_NonPositiveQuantityRejected ==
    [][/\ \A p \in Procs :
            (pc[p] = "loaded" /\ req[p].quantity <= 0 /\ pc'[p] = "done")
            => (status'[p] # 201 /\ products' = products /\ orders' = orders)
       /\ \A o \in orders' : o.quantity > 0]_vars

\* C5: an accepted POST /orders for quantity q, 0 < q <= current stock, placed
\* when every recorded order has a positive quantity, lowers that
\* product's stock by exactly q, adds exactly one order with an unused id and the
\* caller's user id, the product id and q, and changes nothing else
C5_SuccessEffect ==
    [][\A p \in Procs :
         (/\ pc[p] = "loaded"
          /\ Finishes(p, 201)
          /\ req[p].product_id \in DOMAIN products
          /\ req[p].quantity > 0
          /\ \A o \in orders : o.quantity > 0
          /\ req[p].quantity <= products[req[p].product_id].stock)
         => /\ DOMAIN products' = DOMAIN products
            /\ products'[req[p].product_id].stock
                 = products[req[p].product_id].stock - req[p].quantity
            /\ \A i \in DOMAIN products \ {req[p].product_id} : products'[i] = products[i]
            /\ orders \subseteq orders'
            /\ \E o \in orders' \ orders :
                 /\ orders' = orders \cup {o}
                 /\ o.id \notin OrderIds(orders)
                 /\ o.user_id = req[p].user
                 /\ o.product_id = req[p].product_id
                 /\ o.quantity = req[p].quantity]_vars

\* C6: an order is recorded with total_price = the product's stored price at the
\* step that commits the decrement, times the order's quantity, and no later step
\* changes the total_price stored under an order id
C6_PriceSnapshot ==
    [][/\ \A o \in orders' \ orders :
            /\ o.product_id \in DOMAIN products
            /\ o.total_price = products[o.product_id].price * o.quantity
       /\ \A o \in orders :
            \E n \in orders' : n.id = o.id /\ n.total_price = o.total_price]_vars

C6_Witness ==
    \E o \in orders :
        /\ o.quantity = 2 /\ o.total_price = 4
        /\ o.product_id \notin DOMAIN products

\* C7: GET /orders answers the caller with the ids of exactly the orders whose
\* user_id is the caller, and an order's user_id is the identity of the caller
\* whose POST recorded it
C7_OwnOrdersOnly ==
    [][\A p \in Procs :
         /\ (pc[p] = "idle" /\ pc'[p] = "done" /\ req'[p].op = "get")
            => OrderIds(body'[p]) = {o.id : o \in {x \in orders : x.user_id = req'[p].user}}
         /\ Finishes(p, 201)
            => \A o \in orders' \ orders : o.user_id = req[p].user]_vars

C7_Witness ==
    \E p \in Procs :
        /\ pc[p] = "done" /\ req[p].op = "get" /\ body[p] # {}
        /\ \E o \in orders : o.user_id # req[p].user
        /\ \E o \in orders : o.user_id = req[p].user /\ o.id \in OrderIds(body[p])

\* C8: a recorded order stays in the ledger, every field as recorded, through
\* every later step, the deletion of its product included
C8_LedgerAppendOnly == [][orders \subseteq orders']_vars

C8_Witness ==
    /\ products = <<>>
    /\ \E o \in orders : o.product_id \in DOMAIN createdStock

\* C9: GET /orders changes no table, and two answered GET /orders of one user
\* whose queries ran with no committed write between them carry the same orders
C9_ReadOnlyRepeatable ==
    [][/\ \A p \in Procs :
            (pc[p] = "idle" /\ pc'[p] = "done" /\ req'[p].op = "get")
            => (products' = products /\ orders' = orders
                /\ nextProductId' = nextProductId)
       /\ \A p, q \in Procs :
            (/\ pc'[p] = "done" /\ pc'[q] = "done"
             /\ req'[p].op = "get" /\ req'[q].op = "get"
             /\ req'[p].user = req'[q].user
             /\ readAt'[p] = readAt'[q])
            => body'[p] = body'[q]]_vars

C9_Witness ==
    \E p, q \in Procs :
        /\ p # q
        /\ pc[p] = "done" /\ pc[q] = "done"
        /\ req[p].op = "get" /\ req[q].op = "get"
        /\ req[p].user = req[q].user
        /\ readAt[p] = readAt[q]
        /\ body[p] # {}

\* C10: for every product in the catalog whose orders all have a positive
\* quantity, its stock plus the quantities of the orders recorded against it
\* equals the stock it was created with
C10_StockConserved ==
    \A pid \in DOMAIN products :
        (\A o \in OrdersForProduct(pid) : o.quantity > 0)
        => products[pid].stock + SumQuantity(OrdersForProduct(pid)) = createdStock[pid]

====
